---------------------------- MODULE Spec2Model ----------------------------
(***************************************************************************)
(* MauiRemoteLogging: the log transport layer.                             *)
(*                                                                         *)
(* Receiving side (main.js of the Electron log server): the TCP listener,  *)
(* the registry of accepted sockets, the per-connection line decoder and   *)
(* the debounced batch that is sent to the window.                         *)
(*                                                                         *)
(* Sending side (RemoteLoggingClientService.cs): the unbounded channel,    *)
(* the single consumer task, connect-with-retry and Dispose.               *)
(*                                                                         *)
(* Text is a sequence of characters, a socket chunk is a sequence of       *)
(* bytes; a character or a byte is a one-element token (a string).         *)
(***************************************************************************)
EXTENDS Integers, Sequences, FiniteSets

VARIABLES
    \* ---- receiving side: main.js ----
    server,        \* `server`: NULL or the net.Server it refers to (named by its port)
    isStopping,    \* `isStopping`
    clientSockets, \* `clientSockets`: the registry of accepted sockets
    logQueue,      \* `logQueue`: the batch
    batchTimer,    \* `batchTimer` is not null
    timeouts,      \* setTimeout callbacks scheduled by queueLogs and not yet run
    mainWindow,    \* `mainWindow` is not null
    listening,     \* the ports a net.Server of this process listens on
    closeCbs,      \* per port: callbacks given to server.close() of the server
                   \* created on it, whose 'close' event is due
    quitCbs,       \* per port: how many of these callbacks belong to a
                   \* stopLogServer() the 'will-quit' handler awaits
    app,           \* the life of the app: "running"; "allclosed" ('window-all-closed'
                   \* is due); "quitting" (app.quit() was called: the windows
                   \* are closed and 'will-quit' follows); "exited"
    darwin,        \* process.platform === 'darwin'
    errors,        \* the 'error' events the system has raised on listening servers
    sock,          \* per socket: "none", "open" or "destroyed" (its 'close' is due)
    buffer,        \* per socket: `buffer` of the connection callback's closure
    reply,         \* what an ipcMain handler returned or threw in the last step
    sink,          \* the 'log-received-batch' payloads sent to the window
    received,      \* per socket: all bytes its 'data' handler has been given
    emitted,       \* per socket: all lines its 'data' handler has queued
    \* ---- sending side: RemoteLoggingClientService.cs ----
    channel,       \* items of `_channel`, head first
    completed,     \* `_writer.Complete()` has run
    cancelled,     \* `_cancellationTokenSource.Cancel()` has run
    pc,            \* where the consumer task is
    item,          \* `logMessage` of the running loop iteration (0: none)
    isConnected,   \* `_isConnected`
    client,        \* `_client`: 0 (null) or the number of the TcpClient
    tcpOpen,       \* the TcpClients created and not disposed
    writer,        \* `_streamWriter`: 0 (null) or the TcpClient it writes to
    writerOpen,    \* `_streamWriter` is not disposed
    disposePc,     \* where the caller of Dispose is
    nextMsg,       \* the next message the caller enqueues: 1, 2, ...
    writes,        \* the WriteLineAsync calls so far: message, TcpClient, outcome
    dropped,       \* messages taken from the channel and never handed to a write
    failures,      \* the failed writes: <<TcpClient, nextMsg at that moment>>
    faults         \* connect and write failures the network has caused so far

serverVars == <<server, isStopping, clientSockets, logQueue, batchTimer, timeouts,
                mainWindow, listening, closeCbs, quitCbs, app, darwin, errors,
                sock, buffer, reply>>
\* what the specifications observe of the handlers: each records what it needs
frameVars  == <<sink, received, emitted>>
clientVars == <<channel, completed, cancelled, pc, item, isConnected, client,
                tcpOpen, writer, writerOpen, disposePc, nextMsg, writes,
                dropped, failures, faults>>
vars == <<serverVars, frameVars, clientVars>>

NULL == "null"
\* no ipcMain handler ran
NoReply == [op |-> "none", ok |-> TRUE, value |-> <<>>]

-----------------------------------------------------------------------------
(* Bounds of the model *)

\* records the batch may hold before a handler that appends is held back
MaxBatch == 3
\* characters a connection's peer sends in the framing specification
MaxText == 4
\* bytes of one 'data' event
MaxChunk == 2
\* close callbacks pending on one server (stop requests during one stop)
MaxCloseCbs == 2
\* characters a connection's buffer may hold in the server specification
MaxBuffer == 1
\* messages the caller enqueues
MaxMsgs == 3
\* connect and write failures the network causes
MaxFaults == 2
\* the most records appended in the batch specification
MaxRecords == 4
\* the most calls of EnqueueLog in the entry specification
MaxEntries == 2
\* 'error' events the system raises on listening servers
MaxErrors == 1

Sockets == {"c1", "c2"}
Ports == {"8080", "8081"}

-----------------------------------------------------------------------------
(* Text: JavaScript strings, Buffers, and the String methods main.js uses *)

LF == "\n"
CR == "\r"
SP == " "
EAcute == "U+00E9"
Replacement == "U+FFFD"

\* the UTF-8 bytes of the characters above
ByteA == "61"
ByteSP == "20"
ByteLF == "0A"
ByteB == "62"
ByteCR == "0D"
ByteLead == "C3"
ByteCont == "A9"
Bytes == {ByteA, ByteSP, ByteLF, ByteLead, ByteCont}

\* runs of ASCII characters taken as one character each: their UTF-8 bytes are
\* their characters
AsciiPieces == {"[", "] [", "::", "] ", "Error", "S", "M", "m", "System.Exception: x"}

IsWhitespace(c) == c \in {SP, LF, "\r", "\t"}

\* Buffer.prototype.toString(): UTF-8 decoding of one Buffer on its own; a lead
\* byte without its continuation byte, and a continuation byte without its lead,
\* each decode to U+FFFD.
RECURSIVE BufferToString(_)
BufferToString(data) ==
    IF data = <<>> THEN <<>>
    ELSE LET b == Head(data) IN
         IF b = ByteLead /\ Len(data) >= 2 /\ data[2] = ByteCont
         THEN <<EAcute>> \o BufferToString(SubSeq(data, 3, Len(data)))
         ELSE LET c == CASE b = ByteA  -> "a"
                         [] b = ByteB  -> "b"
                         [] b = ByteSP -> SP
                         [] b = ByteLF -> LF
                         [] b = ByteCR -> CR
                         [] b \in AsciiPieces -> b
                         [] OTHER      -> Replacement
              IN <<c>> \o BufferToString(Tail(data))

\* String.prototype.indexOf(ch): 0-based, -1 when absent
RECURSIVE IndexOfFrom(_, _, _)
IndexOfFrom(str, ch, i) ==
    IF i >= Len(str) THEN -1
    ELSE IF str[i + 1] = ch THEN i
    ELSE IndexOfFrom(str, ch, i + 1)

IndexOf(str, ch) == IndexOfFrom(str, ch, 0)

\* String.prototype.substring(start, end) and substring(start), 0-based
Substring(str, start, end) == SubSeq(str, start + 1, end)
SubstringFrom(str, start) == SubSeq(str, start + 1, Len(str))

\* String.prototype.trim()
RECURSIVE TrimStart(_)
TrimStart(str) ==
    IF str # <<>> /\ IsWhitespace(Head(str)) THEN TrimStart(Tail(str)) ELSE str

RECURSIVE TrimEnd(_)
TrimEnd(str) ==
    IF str # <<>> /\ IsWhitespace(str[Len(str)])
    THEN TrimEnd(SubSeq(str, 1, Len(str) - 1)) ELSE str

Trim(str) == TrimEnd(TrimStart(str))

-----------------------------------------------------------------------------
(* The line decoder of socket.on('data') *)

\* (mutant) an if in the place of the while: the first line only
DecodeOnce(buf, logLines) ==
    LET boundary == IndexOf(buf, LF) IN
    IF boundary = -1 THEN [buffer |-> buf, logLines |-> logLines]
    ELSE LET line == Trim(Substring(buf, 0, boundary)) IN
         [buffer   |-> SubstringFrom(buf, boundary + 1),
          logLines |-> IF Len(line) > 0 THEN Append(logLines, line) ELSE logLines]

\* (mutant) a loop without the test of line.length: empty lines are kept
RECURSIVE DecodeKeepEmpty(_, _)
DecodeKeepEmpty(buf, logLines) ==
    LET boundary == IndexOf(buf, LF) IN
    IF boundary = -1 THEN [buffer |-> buf, logLines |-> logLines]
    ELSE DecodeKeepEmpty(SubstringFrom(buf, boundary + 1),
                         Append(logLines, Trim(Substring(buf, 0, boundary))))

\* the while loop: cut the buffer at each line break, keep the non-empty
\* trimmed lines
RECURSIVE DecodeLoop(_, _)
DecodeLoop(buf, logLines) ==
    LET boundary == IndexOf(buf, LF) IN
    IF boundary = -1 THEN [buffer |-> buf, logLines |-> logLines]
    ELSE LET line == Trim(Substring(buf, 0, boundary))
             rest == SubstringFrom(buf, boundary + 1)
         IN DecodeLoop(rest, IF Len(line) > 0 THEN Append(logLines, line)
                                              ELSE logLines)

\* buffer += data.toString()
AppendData(buf, data) == buf \o BufferToString(data)

\* one 'data' event: the closure's new buffer and the lines to queue
DataHandler(buf, data) == DecodeLoop(AppendData(buf, data), <<>>)

-----------------------------------------------------------------------------
(* The batch: queueLogs, its timer, logToServerUI *)

\* the three variables queueLogs works on, as one value
Batch == [logQueue |-> logQueue, batchTimer |-> batchTimer, timeouts |-> timeouts]

\* (mutant) queueLogs that puts the logs before the ones queued
QueueLogsAtFront(b, logs) ==
    [logQueue   |-> logs \o b.logQueue,
     batchTimer |-> TRUE,
     timeouts   |-> IF ~b.batchTimer THEN b.timeouts + 1 ELSE b.timeouts]

\* queueLogs(logs): push the logs and, when no timer is set, set one
QueueLogs(b, logs) ==
    [logQueue   |-> b.logQueue \o logs,
     batchTimer |-> TRUE,
     timeouts   |-> IF ~b.batchTimer THEN b.timeouts + 1 ELSE b.timeouts]

\* (mutant) logToServerUI that writes to the console only
LogToConsoleOnly(b, message) == b

\* logToServerUI(message): queueLogs([`[SERVER] ${message}`])
LogToServerUI(b, message) == QueueLogs(b, << <<"[SERVER] ">> \o message >>)

\* the app runs and no event of its life is due: 'window-all-closed' follows the
\* 'closed' of the last window, and 'will-quit' follows app.quit() once no
\* window is open, before any other event is handled; app.quit() with a window
\* open asks the window to close, which happens later; nothing runs in an app
\* that has quit
Ready == app = "running" \/ (app = "quitting" /\ mainWindow)

\* the handler's writes to the batch; a handler is held back when its records
\* would take the batch past MaxBatch
SetBatch(b) ==
    /\ Len(b.logQueue) <= MaxBatch
    /\ logQueue' = b.logQueue
    /\ batchTimer' = b.batchTimer
    /\ timeouts' = b.timeouts

\* the timer's callback sends the batch: it is not empty and the window exists
Delivers == Len(logQueue) > 0 /\ mainWindow

\* (mutant) a callback that sends the batch and keeps its records
AfterFlushKept(q) == q

\* logQueue after the timer's callback: reset when the batch was sent
AfterFlush(q) == IF Delivers THEN <<>> ELSE q

\* the setTimeout callback of queueLogs; what it sends is logQueue
BatchTimerFire ==
    /\ Ready
    /\ timeouts > 0
    /\ logQueue' = AfterFlush(logQueue)
    /\ batchTimer' = FALSE
    /\ timeouts' = timeouts - 1
    /\ reply' = NoReply
    /\ UNCHANGED <<quitCbs, app, darwin, errors>>
    /\ UNCHANGED <<server, isStopping, clientSockets, mainWindow, listening,
                   closeCbs, sock, buffer>>
    /\ UNCHANGED <<received, emitted, clientVars>>

\* mainWindow.on('closed'): the user closed the window, or app.quit() did.
\* 'window-all-closed' follows unless the app is quitting.
WindowClosed ==
    /\ Ready
    /\ mainWindow
    /\ mainWindow' = FALSE
    /\ app' = IF app = "quitting" THEN "quitting" ELSE "allclosed"
    /\ reply' = NoReply
    /\ UNCHANGED <<quitCbs, darwin, errors>>
    /\ UNCHANGED <<server, isStopping, clientSockets, logQueue, batchTimer,
                   timeouts, listening, closeCbs, sock, buffer>>
    /\ UNCHANGED <<frameVars, clientVars>>

\* app.on('window-all-closed'): app.quit() except on macOS
WindowAllClosed ==
    /\ app = "allclosed"
    /\ app' = IF darwin THEN "running" ELSE "quitting"
    /\ reply' = NoReply
    /\ UNCHANGED <<quitCbs, darwin, errors>>
    /\ UNCHANGED <<server, isStopping, clientSockets, logQueue, batchTimer,
                   timeouts, mainWindow, listening, closeCbs, sock, buffer>>
    /\ UNCHANGED <<frameVars, clientVars>>

\* the menu item { role: 'quit' }: app.quit()
MenuQuit ==
    /\ app = "running"
    /\ app' = "quitting"
    /\ reply' = NoReply
    /\ UNCHANGED <<quitCbs, darwin, errors>>
    /\ UNCHANGED <<server, isStopping, clientSockets, logQueue, batchTimer,
                   timeouts, mainWindow, listening, closeCbs, sock, buffer>>
    /\ UNCHANGED <<frameVars, clientVars>>

\* app.on('activate'), an event of macOS, with no window open: createWindow()
Activate ==
    /\ Ready
    /\ darwin
    /\ ~mainWindow
    /\ mainWindow' = TRUE
    /\ reply' = NoReply
    /\ UNCHANGED <<quitCbs, app, darwin, errors>>
    /\ UNCHANGED <<server, isStopping, clientSockets, logQueue, batchTimer,
                   timeouts, listening, closeCbs, sock, buffer>>
    /\ UNCHANGED <<frameVars, clientVars>>

-----------------------------------------------------------------------------
(* The connection callback of net.createServer *)

\* (mutant) a connection callback that does not register the socket
NotRegistered(registry, s) == registry

\* clientSockets.add(socket)
Register(registry, s) == registry \cup {s}

\* a client has connected to a listening server: log it, register the socket,
\* start with an empty buffer
Connection(s) ==
    /\ Ready
    /\ listening # {}
    /\ sock[s] = "none"
    /\ SetBatch(LogToServerUI(Batch, <<"Client connected: ", s>>))
    /\ clientSockets' = Register(clientSockets, s)
    /\ sock' = [sock EXCEPT ![s] = "open"]
    /\ buffer' = [buffer EXCEPT ![s] = <<>>]
    /\ reply' = NoReply
    /\ UNCHANGED <<quitCbs, app, darwin, errors>>
    /\ UNCHANGED <<server, isStopping, mainWindow, listening, closeCbs>>
    /\ UNCHANGED clientVars

\* (mutant) one buffer for all the connections
BufferShared(bufs, s) == bufs["c1"]

\* let buffer = '': the buffer in the closure of the connection's handlers
BufferOf(bufs, s) == bufs[s]

\* socket.on('data'): decode, and queue the lines when there are any
SocketData(s, data) ==
    /\ Ready
    /\ sock[s] = "open"
    /\ LET r == DataHandler(BufferOf(buffer, s), data) IN
       /\ buffer' = [buffer EXCEPT ![s] = r.buffer]
       /\ SetBatch(IF Len(r.logLines) > 0 THEN QueueLogs(Batch, r.logLines)
                                          ELSE Batch)
    /\ reply' = NoReply
    /\ UNCHANGED <<quitCbs, app, darwin, errors>>
    /\ UNCHANGED <<server, isStopping, clientSockets, mainWindow, listening,
                   closeCbs, sock>>
    /\ UNCHANGED clientVars

\* (mutant) a close handler that logs the orphaned data and does not queue it
CloseRecordsLogOnly(b, s, buf) ==
    LET b1 == LogToServerUI(b, <<"Client disconnected: ", s>>) IN
    IF Len(Trim(buf)) > 0
    THEN LogToServerUI(b1, <<"Orphaned data from client: ">> \o Trim(buf))
    ELSE b1

\* what socket.on('close') appends: the disconnection and, when the trimmed
\* buffer is not empty, the orphaned data: once in a [SERVER] record, once alone
CloseRecords(b, s, buf) ==
    LET b1 == LogToServerUI(b, <<"Client disconnected: ", s>>) IN
    IF Len(Trim(buf)) > 0
    THEN QueueLogs(LogToServerUI(b1, <<"Orphaned data from client: ">> \o Trim(buf)),
                   <<Trim(buf)>>)
    ELSE b1

\* (mutant) a close handler that leaves the socket in the registry
StaysRegistered(registry, s) == registry

\* clientSockets.delete(socket)
Deregister(registry, s) == registry \ {s}

\* socket.on('close'): the peer closed an open socket, or the socket was destroyed
SocketClose(s) ==
    /\ Ready
    /\ sock[s] \in {"open", "destroyed"}
    /\ SetBatch(CloseRecords(Batch, s, BufferOf(buffer, s)))
    /\ clientSockets' = Deregister(clientSockets, s)
    /\ sock' = [sock EXCEPT ![s] = "none"]
    /\ buffer' = [buffer EXCEPT ![s] = <<>>]
    /\ reply' = NoReply
    /\ UNCHANGED <<quitCbs, app, darwin, errors>>
    /\ UNCHANGED <<server, isStopping, mainWindow, listening, closeCbs>>
    /\ UNCHANGED clientVars

\* socket.on('error'): log it; the socket is destroyed and its 'close' follows
SocketError(s) ==
    /\ Ready
    /\ sock[s] = "open"
    /\ SetBatch(LogToServerUI(Batch, <<"Client error (", s, "): ", "ECONNRESET">>))
    /\ sock' = [sock EXCEPT ![s] = "destroyed"]
    /\ reply' = NoReply
    /\ UNCHANGED <<quitCbs, app, darwin, errors>>
    /\ UNCHANGED <<server, isStopping, clientSockets, mainWindow, listening,
                   closeCbs, buffer>>
    /\ UNCHANGED <<frameVars, clientVars>>

-----------------------------------------------------------------------------
(* The ipcMain handlers, startLogServer and stopLogServer *)

\* `${clientSockets.size}`: the number in decimal
Decimal(n) == CASE n = 0 -> "0" [] n = 1 -> "1" [] n = 2 -> "2" [] OTHER -> "many"

RunningMsg == <<"Server is already running.">>
StoppingMsg == <<"Server is currently stopping. Please wait.">>
PortInUseMsg(port) == <<"Port ", port, " is already in use.">>

\* a handler returned value
Returned(op, value) == [op |-> op, ok |-> TRUE, value |-> value]
\* a handler threw new Error(message)
Threw(op, message) == [op |-> op, ok |-> FALSE, value |-> message]

\* the net.Server objects that exist: listening, or closed with 'close' due
Listeners == listening \cup {p \in Ports : closeCbs[p] > 0}
NumListeners == Cardinality(listening) + Cardinality({p \in Ports : closeCbs[p] > 0})

\* (mutant) a guard that forgets the running server
StartRefusedOnlyStopping == isStopping

\* the guard of the 'start-server' handler: it throws when this holds
StartRefused == server # NULL \/ isStopping

\* server.on('error'): server = null, whatever instance was created
ServerAfterError(created) == NULL

\* ipcMain.handle('start-server') with startLogServer(port). listen(port) binds
\* at once and reports on the next tick, before any other event is handled:
\* bind is "ok", or the code of the 'error' event.
StartServer(port, bind) ==
    /\ Ready
    /\ IF StartRefused
       THEN LET msg == IF isStopping THEN StoppingMsg ELSE RunningMsg IN
            /\ SetBatch(LogToServerUI(Batch, msg))
            /\ reply' = Threw("start-server", msg)
            /\ UNCHANGED <<server, listening>>
       ELSE IF bind = "EADDRINUSE" \/ port \in listening
       THEN /\ SetBatch(LogToServerUI(Batch, <<"Error: ">> \o PortInUseMsg(port)))
            /\ reply' = Threw("start-server", PortInUseMsg(port))
            /\ server' = ServerAfterError(port)
            /\ UNCHANGED listening
       ELSE IF bind # "ok"
       THEN /\ SetBatch(LogToServerUI(Batch, <<"Server error: ", bind>>))
            /\ reply' = Threw("start-server", <<bind>>)
            /\ server' = ServerAfterError(port)
            /\ UNCHANGED listening
       ELSE /\ SetBatch(LogToServerUI(Batch,
                            <<"Server started and listening on port ", port>>))
            /\ reply' = Returned("start-server", <<port>>)
            /\ server' = port
            /\ listening' = listening \cup {port}
    /\ UNCHANGED <<quitCbs, app, darwin, errors>>
    /\ UNCHANGED <<isStopping, clientSockets, mainWindow, closeCbs, sock, buffer>>
    /\ UNCHANGED <<frameVars, clientVars>>

\* server.on('error') of the server created on port p, after its listen()
\* succeeded (an accept that fails): the record, reject() on a promise already
\* resolved, and server = null. The listener goes on listening.
ServerError(p) ==
    /\ Ready
    /\ errors < MaxErrors
    /\ errors' = errors + 1
    /\ p \in listening
    /\ SetBatch(LogToServerUI(Batch, <<"Server error: ", "accept EMFILE">>))
    /\ server' = ServerAfterError(p)
    /\ reply' = NoReply
    /\ UNCHANGED <<quitCbs, app, darwin>>
    /\ UNCHANGED <<isStopping, clientSockets, mainWindow, listening, closeCbs,
                   sock, buffer>>
    /\ UNCHANGED <<frameVars, clientVars>>

\* clientSockets.forEach(socket => socket.destroy()): the sockets afterwards
DestroyRegistered(sk, registry) ==
    [s \in Sockets |-> IF s \in registry /\ sk[s] = "open" THEN "destroyed" ELSE sk[s]]

\* stopLogServer() with a server, up to the point where its promise waits for
\* the server's 'close': the flag, server.close(callback), destroy() of every
\* registered socket and clear() of the registry
StopLogServer ==
    /\ closeCbs[server] < MaxCloseCbs
    /\ isStopping' = TRUE
    /\ listening' = listening \ {server}
    /\ closeCbs' = [closeCbs EXCEPT ![server] = @ + 1]
    /\ SetBatch(LogToServerUI(Batch,
           <<"Closing ", Decimal(Cardinality(clientSockets)),
             " client connections...">>))
    /\ sock' = DestroyRegistered(sock, clientSockets)
    /\ clientSockets' = {}

\* ipcMain.handle('stop-server'). Without a server it logs and returns; with one
\* it awaits stopLogServer()
StopServer ==
    /\ Ready
    /\ IF server = NULL
       THEN /\ SetBatch(LogToServerUI(Batch, <<"Server is not running.">>))
            /\ reply' = Returned("stop-server", <<>>)
            /\ UNCHANGED <<isStopping, clientSockets, listening, closeCbs, sock>>
       ELSE /\ StopLogServer
            /\ reply' = NoReply
    /\ UNCHANGED <<server, mainWindow, quitCbs, app, darwin, errors, buffer>>
    /\ UNCHANGED <<frameVars, clientVars>>

\* app.on('will-quit'), emitted once app.quit() was called and every window is
\* closed. Without a server the handler does nothing and the app quits; with
\* one it prevents the quit and awaits stopLogServer(). No ipc request is
\* answered.
WillQuit ==
    /\ app = "quitting"
    /\ ~mainWindow
    /\ IF server = NULL
       THEN /\ app' = "exited"
            /\ UNCHANGED <<isStopping, clientSockets, logQueue, batchTimer,
                           timeouts, listening, closeCbs, quitCbs, sock>>
       ELSE /\ StopLogServer
            /\ quitCbs' = [quitCbs EXCEPT ![server] = @ + 1]
            /\ app' = "running"
    /\ reply' = NoReply
    /\ UNCHANGED <<server, mainWindow, darwin, errors, buffer>>
    /\ UNCHANGED <<frameVars, clientVars>>

\* the batch after n callbacks of server.close() have each logged 'Server stopped.'
RECURSIVE StoppedRecords(_, _)
StoppedRecords(b, n) ==
    IF n = 0 THEN b
    ELSE StoppedRecords(LogToServerUI(b, <<"Server stopped.">>), n - 1)

\* (mutant) a callback that leaves the stopping flag as it is
KeepStopping(flag) == flag

\* isStopping = false, in the callback of server.close()
ClearStopping(flag) == FALSE

\* the app after the callbacks of a 'close' have run: the 'will-quit' handler,
\* when it waited, calls app.quit()
AfterStop(state, quits) == IF quits > 0 THEN "quitting" ELSE state

\* the 'close' event of the server created on port p: every callback given to
\* server.close() runs. Each waiting 'stop-server' handler returns; when only
\* the 'will-quit' handler waited no ipc request is answered.
ServerClosed(p) ==
    /\ Ready
    /\ closeCbs[p] > 0
    /\ SetBatch(StoppedRecords(Batch, closeCbs[p]))
    /\ server' = NULL
    /\ isStopping' = ClearStopping(isStopping)
    /\ closeCbs' = [closeCbs EXCEPT ![p] = 0]
    /\ quitCbs' = [quitCbs EXCEPT ![p] = 0]
    /\ reply' = IF closeCbs[p] > quitCbs[p] THEN Returned("stop-server", <<>>)
                                           ELSE NoReply
    /\ app' = AfterStop(app, quitCbs[p])
    /\ UNCHANGED <<clientSockets, mainWindow, darwin, errors, listening, sock,
                   buffer>>
    /\ UNCHANGED <<frameVars, clientVars>>

\* (mutant) a manual entry queued without its tag
ManualUntagged(logText) == logText

\* `[MANUAL] ${logText}`
ManualRecord(logText) == <<"[MANUAL] ">> \o logText

\* ipcMain.handle('add-manual-log')
AddManualLog(logText) ==
    /\ Ready
    /\ SetBatch(QueueLogs(Batch, <<ManualRecord(logText)>>))
    /\ reply' = Returned("add-manual-log", <<>>)
    /\ UNCHANGED <<quitCbs, app, darwin, errors>>
    /\ UNCHANGED <<server, isStopping, clientSockets, mainWindow, listening,
                   closeCbs, sock, buffer>>
    /\ UNCHANGED <<frameVars, clientVars>>

-----------------------------------------------------------------------------
(* RemoteLoggingClientService: the producers' side *)

\* (mutant) TryWrite that still accepts after Complete()
TryWriteAfterComplete(ch, m) == Append(ch, m)

\* (mutant) TryWrite that puts the item at the head
TryWriteAtHead(ch, m) == IF completed THEN ch ELSE <<m>> \o ch

\* the items after _writer.TryWrite(m): the item is added at the tail; on a
\* completed channel TryWrite returns false and adds nothing
TryWrite(ch, m) == IF completed THEN ch ELSE Append(ch, m)

\* EnqueueLog(string): _writer.TryWrite(logMessage), its result ignored. A
\* reader waiting in WaitToReadAsync is given its result by the write.
EnqueueLog(m) ==
    /\ channel' = TryWrite(channel, m)
    /\ pc' = IF pc = "blocked" /\ ~completed THEN "read" ELSE pc
    /\ nextMsg' = m + 1
    /\ UNCHANGED <<completed, cancelled, item, isConnected, client, tcpOpen,
                   writer, writerOpen, disposePc, writes, dropped, failures, faults>>
    /\ UNCHANGED <<serverVars, frameVars>>

\* EnqueueLog(string) with a text for its message
EnqueueText(text) ==
    /\ channel' = TryWrite(channel, text)
    /\ pc' = IF pc = "blocked" /\ ~completed THEN "read" ELSE pc
    /\ nextMsg' = nextMsg + 1
    /\ UNCHANGED <<completed, cancelled, item, isConnected, client, tcpOpen,
                   writer, writerOpen, disposePc, writes, dropped, failures, faults>>
    /\ UNCHANGED <<serverVars, frameVars>>

\* a null exception argument
NoException == <<>>

\* $"[{level}] [{source}::{methodName}] {message}", and with an exception
\* Environment.NewLine and the exception's ToString() after it
FormatEntry(level, source, message, exception, methodName, newLine) ==
    LET logEntry == <<"[", level, "] [", source, "::", methodName, "] ">> \o message IN
    IF exception # NoException THEN logEntry \o newLine \o exception ELSE logEntry

\* EnqueueLog(LogLevel, string, string, Exception, string)
EnqueueEntry(level, source, message, exception, methodName, newLine) ==
    EnqueueText(FormatEntry(level, source, message, exception, methodName, newLine))

-----------------------------------------------------------------------------
(* RemoteLoggingClientService: the consumer task *)

\* Dispose is inside its lock block: a lock (_connectionLock) of the consumer
\* waits
LockHeld == disposePc = "throwing"

\* the first statement the consumer task runs: the argument of ReadAllAsync,
\* _cancellationTokenSource.Token. Task.Run only queues the task, so Dispose
\* may have run to its end before it; the getter of a disposed source throws
\* ObjectDisposedException and the task ends faulted.
ReadToken ==
    /\ pc = "start"
    /\ pc' = IF disposePc = "disposed" THEN "faulted" ELSE "wait"
    /\ UNCHANGED <<channel, completed, cancelled, item, isConnected, client,
                   tcpOpen, writer, writerOpen, disposePc, nextMsg, writes,
                   dropped, failures, faults>>
    /\ UNCHANGED <<serverVars, frameVars>>

\* ReadAllAsync: WaitToReadAsync(token). A cancelled token ends the task with
\* OperationCanceledException, items let the inner loop run, a completed empty
\* channel ends the enumeration, and otherwise the task waits.
WaitToRead ==
    /\ pc = "wait"
    /\ pc' = IF cancelled THEN "cancelled"
             ELSE IF channel # <<>> THEN "read"
             ELSE IF completed THEN "done"
             ELSE "blocked"
    /\ UNCHANGED <<channel, completed, cancelled, item, isConnected, client,
                   tcpOpen, writer, writerOpen, disposePc, nextMsg, writes,
                   dropped, failures, faults>>
    /\ UNCHANGED <<serverVars, frameVars>>

\* (mutant) a read that removes the item behind the one it takes as well
AfterTakeTwo(ch) == IF Len(ch) > 1 THEN Tail(Tail(ch)) ELSE Tail(ch)

\* the head of the channel
TakeItem(ch) == Head(ch)
\* the channel without the item taken
AfterTake(ch) == Tail(ch)

\* ReadAllAsync: TryRead, and the loop body up to its first await: a connected
\* client writes, a disconnected one enters ConnectWithRetryAsync
TryRead ==
    /\ pc = "read"
    /\ IF channel # <<>>
       THEN /\ item' = TakeItem(channel)
            /\ channel' = AfterTake(channel)
            /\ pc' = IF isConnected THEN "send" ELSE "retry"
       ELSE /\ pc' = "wait"
            /\ UNCHANGED <<item, channel>>
    /\ UNCHANGED <<completed, cancelled, isConnected, client, tcpOpen, writer,
                   writerOpen, disposePc, nextMsg, writes, dropped, failures, faults>>
    /\ UNCHANGED <<serverVars, frameVars>>

\* (mutant) a new TcpClient made without disposing the one before
NewClientLeak(open, old) == open \cup {old + 1}

\* the undisposed TcpClients after _client?.Dispose(); _client = new TcpClient()
NewClient(open, old) == (open \ {old}) \cup {old + 1}

\* (mutant) a loop test that does not look at the token
CancellationIgnored == FALSE

\* _cancellationTokenSource.Token.IsCancellationRequested
IsCancellationRequested == cancelled

\* ConnectWithRetryAsync: the loop condition. Reading Token of a disposed
\* CancellationTokenSource throws. When the condition holds the consumer goes
\* on to the lock block, which it enters in a later step: the condition is
\* evaluated outside the lock. When the loop is left without a connection,
\* ConsumeLogEntries skips the write.
RetryLoop ==
    /\ pc = "retry"
    /\ IF isConnected
       THEN /\ pc' = "send"
            /\ UNCHANGED dropped
       ELSE IF disposePc = "disposed"
       THEN /\ pc' = "faulted"
            /\ dropped' = dropped \cup {item}
       ELSE IF IsCancellationRequested
       THEN /\ pc' = "read"
            /\ dropped' = dropped \cup {item}
       ELSE /\ pc' = "create"
            /\ UNCHANGED dropped
    /\ UNCHANGED <<channel, completed, cancelled, item, isConnected, client,
                   tcpOpen, writer, writerOpen, disposePc, nextMsg, writes,
                   failures, faults>>
    /\ UNCHANGED <<serverVars, frameVars>>

\* ConnectWithRetryAsync: the first lock block, which disposes the old
\* TcpClient and creates the next one, and the start of ConnectAsync on it
CreateClient ==
    /\ ~LockHeld
    /\ pc = "create"
    /\ client' = client + 1
    /\ tcpOpen' = NewClient(tcpOpen, client)
    /\ pc' = "connect"
    /\ UNCHANGED <<channel, completed, cancelled, item, isConnected, writer,
                   writerOpen, disposePc, nextMsg, writes, dropped, failures,
                   faults>>
    /\ UNCHANGED <<serverVars, frameVars>>

\* ConnectAsync succeeded: the second lock block
ConnectOk ==
    /\ ~LockHeld
    /\ pc = "connect"
    /\ client \in tcpOpen
    /\ writer' = client
    /\ writerOpen' = TRUE
    /\ isConnected' = TRUE
    /\ pc' = "retry"
    /\ UNCHANGED <<channel, completed, cancelled, item, client, tcpOpen,
                   disposePc, nextMsg, writes, dropped, failures, faults>>
    /\ UNCHANGED <<serverVars, frameVars>>

\* (mutant) a connect failure that is not caught
AfterConnectFailThrows == "faulted"

\* (mutant) a catch block that goes round the loop without the delay
AfterConnectFailNoDelay ==
    IF disposePc = "disposed" THEN "faulted"
    ELSE IF cancelled THEN "cancelled"
    ELSE "retry"

\* where the catch block of ConnectWithRetryAsync leaves the task: reading
\* Token of a disposed source throws, Task.Delay with a cancelled token throws
\* at once, and otherwise the delay is awaited
AfterConnectFail ==
    IF disposePc = "disposed" THEN "faulted"
    ELSE IF cancelled THEN "cancelled"
    ELSE "delay"

\* ConnectAsync or GetStream threw (the network, or Dispose has disposed the
\* TcpClient): the catch block. Task.Delay with a cancelled token throws at once.
ConnectFail ==
    /\ pc = "connect"
    /\ IF client \in tcpOpen
       THEN faults < MaxFaults /\ faults' = faults + 1
       ELSE UNCHANGED faults
    /\ isConnected' = FALSE
    /\ pc' = AfterConnectFail
    /\ dropped' = IF disposePc = "disposed" \/ cancelled
                  THEN dropped \cup {item} ELSE dropped
    /\ UNCHANGED <<channel, completed, cancelled, item, client, tcpOpen, writer,
                   writerOpen, disposePc, nextMsg, writes, failures>>
    /\ UNCHANGED <<serverVars, frameVars>>

\* Task.Delay(RetryDelay, token) ran to its end
DelayElapsed ==
    /\ pc = "delay"
    /\ ~cancelled
    /\ pc' = "retry"
    /\ UNCHANGED <<channel, completed, cancelled, item, isConnected, client,
                   tcpOpen, writer, writerOpen, disposePc, nextMsg, writes,
                   dropped, failures, faults>>
    /\ UNCHANGED <<serverVars, frameVars>>

\* Task.Delay(RetryDelay, token) was cancelled: TaskCanceledException leaves the
\* catch block and ends the task
DelayCancelled ==
    /\ pc = "delay"
    /\ cancelled
    /\ pc' = "cancelled"
    /\ dropped' = dropped \cup {item}
    /\ UNCHANGED <<channel, completed, cancelled, item, isConnected, client,
                   tcpOpen, writer, writerOpen, disposePc, nextMsg, writes,
                   failures, faults>>
    /\ UNCHANGED <<serverVars, frameVars>>

\* SendLogAsync: WriteLineAsync succeeded
WriteOk ==
    /\ pc = "send"
    /\ writerOpen
    /\ writer \in tcpOpen
    /\ writes' = Append(writes, [msg |-> item, tcp |-> writer, ok |-> TRUE])
    /\ pc' = "read"
    /\ UNCHANGED <<channel, completed, cancelled, item, isConnected, client,
                   tcpOpen, writer, writerOpen, disposePc, nextMsg, dropped,
                   failures, faults>>
    /\ UNCHANGED <<serverVars, frameVars>>

\* (mutant) a failed write puts the item back into the channel
RequeueAfterWriteFail(ch, m) == Append(ch, m)

\* the channel after a write of the item has failed: the item is not put back
AfterWriteFail(ch, m) == ch

\* (mutant) a catch block that leaves _isConnected set
SendCatchStaysConnected ==
    [isConnected |-> TRUE, writerOpen |-> FALSE, tcpOpen |-> tcpOpen \ {writer, client}]

\* the catch block of SendLogAsync: _isConnected = false, and the writer and the
\* TcpClient are disposed
SendCatch ==
    [isConnected |-> FALSE, writerOpen |-> FALSE, tcpOpen |-> tcpOpen \ {writer, client}]

\* SendLogAsync: WriteLineAsync threw (the network, or Dispose has disposed the
\* writer), and the first statement of the catch block, _isConnected = false,
\* which is written before the lock is taken
WriteFail ==
    /\ pc = "send"
    /\ IF writerOpen /\ writer \in tcpOpen
       THEN faults < MaxFaults /\ faults' = faults + 1
       ELSE UNCHANGED faults
    /\ writes' = Append(writes, [msg |-> item, tcp |-> writer, ok |-> FALSE])
    /\ failures' = failures \cup {<<writer, nextMsg>>}
    /\ isConnected' = SendCatch.isConnected
    /\ channel' = AfterWriteFail(channel, item)
    /\ pc' = "cleanup"
    /\ UNCHANGED <<completed, cancelled, item, client, tcpOpen, writer,
                   writerOpen, disposePc, nextMsg, dropped>>
    /\ UNCHANGED <<serverVars, frameVars>>

\* SendLogAsync: the lock block of the catch block, entered when the lock is
\* free: _streamWriter?.Dispose(); _client?.Dispose()
SendCleanup ==
    /\ ~LockHeld
    /\ pc = "cleanup"
    /\ writerOpen' = SendCatch.writerOpen
    /\ tcpOpen' = SendCatch.tcpOpen
    /\ pc' = "read"
    /\ UNCHANGED <<channel, completed, cancelled, item, isConnected, client,
                   writer, disposePc, nextMsg, writes, dropped, failures, faults>>
    /\ UNCHANGED <<serverVars, frameVars>>

Consumer ==
    \/ ReadToken \/ WaitToRead \/ TryRead \/ RetryLoop \/ CreateClient \/ ConnectOk
    \/ ConnectFail
    \/ DelayElapsed \/ DelayCancelled \/ WriteOk \/ WriteFail \/ SendCleanup

-----------------------------------------------------------------------------
(* RemoteLoggingClientService.Dispose, statement by statement *)

\* _writer.Complete(): a reader waiting on the empty channel is told it has ended
DisposeComplete ==
    /\ disposePc = "idle"
    /\ completed' = TRUE
    /\ pc' = IF pc = "blocked" THEN "done" ELSE pc
    /\ disposePc' = "completed"
    /\ UNCHANGED <<channel, cancelled, item, isConnected, client, tcpOpen, writer,
                   writerOpen, nextMsg, writes, dropped, failures, faults>>
    /\ UNCHANGED <<serverVars, frameVars>>

\* _cancellationTokenSource.Cancel()
DisposeCancel ==
    /\ disposePc = "completed"
    /\ cancelled' = TRUE
    /\ disposePc' = "waiting"
    /\ UNCHANGED <<channel, completed, pc, item, isConnected, client, tcpOpen,
                   writer, writerOpen, nextMsg, writes, dropped, failures, faults>>
    /\ UNCHANGED <<serverVars, frameVars>>

\* _consumerTask?.Wait(1000): returns when the task has run to its end or the
\* second is over, and throws AggregateException when the task was cancelled
\* or has faulted
DisposeWait ==
    /\ disposePc = "waiting"
    /\ disposePc' = IF pc \in {"cancelled", "faulted"} THEN "threw" ELSE "closing"
    /\ UNCHANGED <<channel, completed, cancelled, pc, item, isConnected, client,
                   tcpOpen, writer, writerOpen, nextMsg, writes, dropped,
                   failures, faults>>
    /\ UNCHANGED <<serverVars, frameVars>>

\* the consumer has called WriteLineAsync on the writer and the write has not
\* completed
WriteInProgress == pc = "send" /\ writerOpen

\* the lock block: _streamWriter?.Dispose(); _client?.Dispose(). At pc = "send"
\* the write is either about to be called or in progress. StreamWriter.Dispose
\* first tests for a write in progress: without one it flushes and closes the
\* stream, and the TcpClient is disposed after it; with one it throws
\* InvalidOperationException, and the stream is closed by its finally, a later
\* step, the write going on meanwhile outside the lock.
DisposeClose ==
    /\ disposePc = "closing"
    /\ \/ /\ writerOpen' = FALSE
          /\ tcpOpen' = tcpOpen \ {writer, client}
          /\ disposePc' = "closed"
       \/ /\ WriteInProgress
          /\ disposePc' = "throwing"
          /\ UNCHANGED <<writerOpen, tcpOpen>>
    /\ UNCHANGED <<channel, completed, cancelled, pc, item, isConnected, client,
                   writer, nextMsg, writes, dropped, failures, faults>>
    /\ UNCHANGED <<serverVars, frameVars>>

\* the finally of StreamWriter.Dispose closes the stream; the exception then
\* leaves the lock block and Dispose: neither the TcpClient nor the token
\* source is disposed
DisposeFinally ==
    /\ disposePc = "throwing"
    /\ writerOpen' = FALSE
    /\ disposePc' = "threw"
    /\ UNCHANGED <<channel, completed, cancelled, pc, item, isConnected, client,
                   tcpOpen, writer, nextMsg, writes, dropped, failures, faults>>
    /\ UNCHANGED <<serverVars, frameVars>>

\* _cancellationTokenSource.Dispose()
DisposeCts ==
    /\ disposePc = "closed"
    /\ disposePc' = "disposed"
    /\ UNCHANGED <<channel, completed, cancelled, pc, item, isConnected, client,
                   tcpOpen, writer, writerOpen, nextMsg, writes, dropped,
                   failures, faults>>
    /\ UNCHANGED <<serverVars, frameVars>>

Dispose ==
    \/ DisposeComplete \/ DisposeCancel \/ DisposeWait \/ DisposeClose
    \/ DisposeFinally \/ DisposeCts

-----------------------------------------------------------------------------
(* Specifications *)

\* main.js when the app is ready: no server, the window created
ServerInit ==
    /\ server = NULL
    /\ isStopping = FALSE
    /\ clientSockets = {}
    /\ logQueue = <<>>
    /\ batchTimer = FALSE
    /\ timeouts = 0
    /\ mainWindow = TRUE
    /\ listening = {}
    /\ closeCbs = [p \in Ports |-> 0]
    /\ quitCbs = [p \in Ports |-> 0]
    /\ app = "running"
    /\ errors = 0
    /\ sock = [s \in Sockets |-> "none"]
    /\ buffer = [s \in Sockets |-> <<>>]
    /\ reply = NoReply

FrameInit ==
    /\ sink = <<>>
    /\ received = [s \in Sockets |-> <<>>]
    /\ emitted = [s \in Sockets |-> <<>>]

\* RemoteLoggingClientService after its constructor
ClientInit ==
    /\ channel = <<>>
    /\ completed = FALSE
    /\ cancelled = FALSE
    /\ pc = "start"
    /\ item = 0
    /\ isConnected = FALSE
    /\ client = 0
    /\ tcpOpen = {}
    /\ writer = 0
    /\ writerOpen = FALSE
    /\ disposePc = "idle"
    /\ nextMsg = 1
    /\ writes = <<>>
    /\ dropped = {}
    /\ failures = {}
    /\ faults = 0

\* what a listen() can report
BindResults == {"ok", "EADDRINUSE"}
\* the 'data' events of the server specification
DataChunks == {<<ByteA>>, <<ByteLF>>, <<ByteA, ByteLF>>}
\* the texts of the manual-entry dialog
ManualTexts == {<<"a">>}

\* the app when it is ready, on Linux or Windows. The specifications that start
\* here have no event of the window, and only those events read the platform.
Init == ServerInit /\ darwin = FALSE /\ FrameInit /\ ClientInit

\* the app when it is ready, on any platform
AppInit == ServerInit /\ darwin \in BOOLEAN /\ FrameInit /\ ClientInit

\* the log server while its listeners work without error: requests of the
\* window, events of the sockets and the timer
ServeNext ==
    \/ \E port \in Ports, bind \in BindResults : StartServer(port, bind)
    \/ StopServer
    \/ \E p \in Ports : ServerClosed(p)
    \/ \E s \in Sockets : Connection(s) /\ UNCHANGED frameVars
    \/ \E s \in Sockets, data \in DataChunks :
          /\ SocketData(s, data)
          /\ Len(buffer'[s]) <= MaxBuffer
          /\ UNCHANGED frameVars
    \/ \E s \in Sockets : SocketClose(s) /\ UNCHANGED frameVars
    \/ \E s \in Sockets : SocketError(s)
    \/ \E logText \in ManualTexts : AddManualLog(logText)
    \/ BatchTimerFire /\ UNCHANGED sink

\* the log server: these, and the 'error' events of its listeners
Next ==
    \/ ServeNext
    \/ \E p \in Ports : ServerError(p)

Spec == Init /\ [][Next]_vars

\* the log server with listeners that raise no error
SpecServe == Init /\ [][ServeNext]_vars

\* the 'close' event of a destroyed socket
DestroyedClose(s) == sock[s] = "destroyed" /\ SocketClose(s) /\ UNCHANGED frameVars

\* the log server with its event loop running: the 'close' event of a destroyed
\* socket is emitted, and the batch timer fires
SpecServerLive ==
    /\ SpecServe
    /\ \A s \in Sockets : SF_vars(DestroyedClose(s))
    /\ WF_vars(BatchTimerFire /\ UNCHANGED sink)

\* the log server with its event loop running: the batch timer fires, and the
\* 'close' event of a listener that is closing is emitted (a handler the bound
\* of the batch holds back runs when the timer has emptied the batch)
SpecStopLive ==
    /\ SpecServe
    /\ WF_vars(BatchTimerFire /\ UNCHANGED sink)
    /\ SF_vars(\E p \in Ports : ServerClosed(p))

\* the logging client: one caller enqueueing 1, 2, ..., the consumer task and
\* one call of Dispose
ClientNext ==
    \/ nextMsg <= MaxMsgs /\ EnqueueLog(nextMsg)
    \/ Consumer
    \/ Dispose

SpecClient == Init /\ [][ClientNext]_vars

\* the consumer task is scheduled whenever it can run, a Dispose inside its
\* lock block goes on to leave it, and the network fails at most MaxFaults
\* times
SpecClientLive == SpecClient /\ WF_vars(Consumer) /\ WF_vars(DisposeFinally)

-----------------------------------------------------------------------------
(* The entry specification: the client with structured entries for messages *)

\* Environment.NewLine: "\n" on Android, iOS and macOS, "\r\n" on Windows
NewLines == {<<LF>>, <<CR, LF>>}
Levels == {"Error"}
Sources == {"S"}
Messages == {<<"m">>}
Exceptions == {NoException, <<"System.Exception: x">>}
MethodNames == {"M"}

EntryNext ==
    \/ /\ nextMsg <= MaxEntries
       /\ \E level \in Levels, source \in Sources, message \in Messages,
             exception \in Exceptions, methodName \in MethodNames,
             newLine \in NewLines :
             EnqueueEntry(level, source, message, exception, methodName, newLine)
    \/ Consumer
    \/ Dispose

SpecEntry == Init /\ [][EntryNext]_vars

-----------------------------------------------------------------------------
(* The batch specification: local entries, the timer, the window, the sink *)

\* the texts of the manual-entry dialog in the batch specification
BatchTexts == {<<"a">>, <<"b">>}

\* the number of records in a sequence of batches
RECURSIVE NumRecords(_)
NumRecords(batches) ==
    IF batches = <<>> THEN 0 ELSE Len(Head(batches)) + NumRecords(Tail(batches))

\* the timer's callback with the sink recorded:
\* mainWindow.webContents.send('log-received-batch', logQueue)
Flush ==
    /\ BatchTimerFire
    /\ sink' = IF Delivers THEN Append(sink, logQueue) ELSE sink

\* a manual entry, while fewer than MaxRecords records have been appended
ManualEntry(logText) ==
    /\ Len(logQueue) + NumRecords(sink) < MaxRecords
    /\ AddManualLog(logText)

BatchNext ==
    \/ \E logText \in BatchTexts : ManualEntry(logText)
    \/ Flush
    \/ WindowClosed
    \/ WindowAllClosed
    \/ MenuQuit
    \/ WillQuit
    \/ Activate

SpecBatch == AppInit /\ [][BatchNext]_vars

-----------------------------------------------------------------------------
(* The framing specification: one connection, its peer's text in any chunks *)

\* the byte sequences of length 1 .. n
RECURSIVE ByteSeqs(_)
ByteSeqs(n) ==
    IF n = 0 THEN {}
    ELSE LET shorter == ByteSeqs(n - 1) IN
         {<<b>> : b \in Bytes} \cup shorter
            \cup {Append(d, b) : d \in shorter, b \in Bytes}

\* the bytes are the start of a UTF-8 text: every continuation byte follows a
\* lead byte, every lead byte but a last one is followed by its continuation
RECURSIVE IsUtf8Prefix(_)
IsUtf8Prefix(data) ==
    IF data = <<>> THEN TRUE
    ELSE IF Head(data) = ByteCont THEN FALSE
    ELSE IF Head(data) = ByteLead
         THEN IF Len(data) = 1 THEN TRUE
              ELSE data[2] = ByteCont /\ IsUtf8Prefix(SubSeq(data, 3, Len(data)))
    ELSE IsUtf8Prefix(Tail(data))

\* the bytes are a whole UTF-8 text: no character is cut
IsUtf8(data) ==
    IsUtf8Prefix(data) /\ (IF data = <<>> THEN TRUE ELSE data[Len(data)] # ByteLead)

\* the characters the bytes hold, a cut one counted
NumChars(data) == Len(SelectSeq(data, LAMBDA b : b # ByteCont))

\* the sockets of the framing specification
FrameSockets == {"c1"}

\* the server listens, the sockets of the framing specification are connected
\* and the batch has been sent
FrameServerInit ==
    /\ server = "8080"
    /\ isStopping = FALSE
    /\ clientSockets = FrameSockets
    /\ logQueue = <<>>
    /\ batchTimer = FALSE
    /\ timeouts = 0
    /\ mainWindow = TRUE
    /\ listening = {"8080"}
    /\ closeCbs = [p \in Ports |-> 0]
    /\ quitCbs = [p \in Ports |-> 0]
    /\ app = "running"
    /\ darwin \in BOOLEAN
    /\ errors = 0
    /\ sock = [s \in Sockets |-> IF s \in FrameSockets THEN "open" ELSE "none"]
    /\ buffer = [s \in Sockets |-> <<>>]
    /\ reply = NoReply

\* the records the step has appended to the batch
Appended == SubSeq(logQueue', Len(logQueue) + 1, Len(logQueue'))

\* a 'data' event, observed: the bytes given and the lines queued
FrameData(s, data) ==
    /\ IsUtf8Prefix(received[s] \o data)
    /\ NumChars(received[s] \o data) <= MaxText
    /\ SocketData(s, data)
    /\ received' = [received EXCEPT ![s] = @ \o data]
    /\ emitted' = [emitted EXCEPT ![s] = @ \o Appended]
    /\ UNCHANGED sink

FrameInitAll == FrameServerInit /\ FrameInit /\ ClientInit

FrameNext ==
    \/ \E s \in FrameSockets, data \in ByteSeqs(MaxChunk) : FrameData(s, data)
    \/ \E s \in FrameSockets : SocketClose(s) /\ UNCHANGED frameVars
    \/ BatchTimerFire /\ UNCHANGED sink

SpecFrame == FrameInitAll /\ [][FrameNext]_vars

-----------------------------------------------------------------------------
(* The mixing specification: two connections, local entries, the timer, the sink *)

\* the server listens and both sockets are connected
MixServerInit ==
    /\ server = "8080"
    /\ isStopping = FALSE
    /\ clientSockets = Sockets
    /\ logQueue = <<>>
    /\ batchTimer = FALSE
    /\ timeouts = 0
    /\ mainWindow = TRUE
    /\ listening = {"8080"}
    /\ closeCbs = [p \in Ports |-> 0]
    /\ quitCbs = [p \in Ports |-> 0]
    /\ app = "running"
    /\ darwin \in BOOLEAN
    /\ errors = 0
    /\ sock = [s \in Sockets |-> "open"]
    /\ buffer = [s \in Sockets |-> <<>>]
    /\ reply = NoReply

\* the letter each peer writes its lines with
LetterByte(s) == IF s = "c1" THEN ByteA ELSE ByteB

\* the chunks a peer sends: a letter, a line break, or both
MixChunks(s) == {<<LetterByte(s)>>, <<ByteLF>>, <<LetterByte(s), ByteLF>>}

\* the records followed through the mixing specification
MaxMixed == 3

\* a 'data' event, observed: the lines queued for the connection
MixData(s, data) ==
    /\ SocketData(s, data)
    /\ Len(buffer'[s]) <= MaxBuffer
    /\ Len(logQueue') + NumRecords(sink) <= MaxMixed
    /\ emitted' = [emitted EXCEPT ![s] = @ \o Appended]
    /\ UNCHANGED <<sink, received>>

\* a manual entry among the lines of the connections
MixManual(logText) ==
    /\ Len(logQueue) + NumRecords(sink) < MaxMixed
    /\ ManualEntry(logText)

MixNext ==
    \/ \E s \in Sockets : \E data \in MixChunks(s) : MixData(s, data)
    \/ \E logText \in ManualTexts : MixManual(logText)
    \/ Flush

MixInit == MixServerInit /\ FrameInit /\ ClientInit

SpecMix == MixInit /\ [][MixNext]_vars

-----------------------------------------------------------------------------
(* The isolation specification: the data and close events of two connections *)

\* a 'data' event, observed: the bytes given and the records queued
IsolateData(s, data) ==
    /\ Len(received[s]) + Len(data) <= MaxMixed
    /\ SocketData(s, data)
    /\ received' = [received EXCEPT ![s] = @ \o data]
    /\ emitted' = [emitted EXCEPT ![s] = @ \o Appended]
    /\ UNCHANGED sink

\* a 'close' event, observed: the records queued
IsolateClose(s) ==
    /\ SocketClose(s)
    /\ emitted' = [emitted EXCEPT ![s] = @ \o Appended]
    /\ UNCHANGED <<sink, received>>

\* the timer's callback, what it sends not observed
IsolateTimer == BatchTimerFire /\ UNCHANGED sink

IsolateNext ==
    \/ \E s \in Sockets : \E data \in MixChunks(s) : IsolateData(s, data)
    \/ \E s \in Sockets : IsolateClose(s)
    \/ IsolateTimer

SpecIsolate == MixInit /\ [][IsolateNext]_vars

-----------------------------------------------------------------------------
(* The round trip: one message from EnqueueLog to the records of the server *)

\* the UTF-8 bytes a StreamWriter writes for a text
RECURSIVE Utf8Bytes(_)
Utf8Bytes(text) ==
    IF text = <<>> THEN <<>>
    ELSE LET c == Head(text)
             bytes == CASE c = "a" -> <<ByteA>>
                        [] c = "b" -> <<ByteB>>
                        [] c = SP -> <<ByteSP>>
                        [] c = LF -> <<ByteLF>>
                        [] c = CR -> <<ByteCR>>
                        [] c = EAcute -> <<ByteLead, ByteCont>>
                        [] OTHER -> <<c>>
         IN bytes \o Utf8Bytes(Tail(text))

\* what WriteLineAsync(text) gives the stream: the text and Environment.NewLine
WriteLine(text, newLine) == text \o newLine

\* the texts given to EnqueueLog(string)
TripTexts == {<<"a">>, <<"a", SP, "a">>, <<SP, "a">>, <<"a", SP>>, <<SP>>, <<>>,
              <<"a", LF, "a">>, <<EAcute>>}

\* EnqueueLog(string), called once
TripEnqueueText(text) == nextMsg = 1 /\ EnqueueText(text)

\* EnqueueLog(LogLevel, string, string, Exception, string), called once
TripEnqueueEntry(level, source, message, exception, methodName, newLine) ==
    /\ nextMsg = 1
    /\ EnqueueEntry(level, source, message, exception, methodName, newLine)

\* SendLogAsync: WriteLineAsync succeeded; what was written is the text with
\* its line terminator
TripWrite(newLine) ==
    /\ pc = "send"
    /\ writerOpen
    /\ writer \in tcpOpen
    /\ writes' = Append(writes, [msg |-> WriteLine(item, newLine), tcp |-> writer,
                                 ok |-> TRUE])
    /\ pc' = "read"
    /\ UNCHANGED <<channel, completed, cancelled, item, isConnected, client,
                   tcpOpen, writer, writerOpen, disposePc, nextMsg, dropped,
                   failures, faults>>
    /\ UNCHANGED <<serverVars, frameVars>>

\* the bytes the client has written to its socket
Wire == IF writes = <<>> THEN <<>> ELSE Utf8Bytes(writes[1].msg)

\* the bytes written that c1 has not received yet
InTransit == SubSeq(Wire, Len(received["c1"]) + 1, Len(Wire))

\* a 'data' event of c1 with the next n bytes in transit, wherever that
\* splits them
TripData(n) ==
    /\ n <= Len(InTransit)
    /\ LET data == SubSeq(InTransit, 1, n) IN
       /\ SocketData("c1", data)
       /\ received' = [received EXCEPT !["c1"] = @ \o data]
    /\ emitted' = [emitted EXCEPT !["c1"] = @ \o Appended]
    /\ UNCHANGED sink

\* the longest written text, in bytes
MaxWire == 13

TripNext ==
    \/ \E text \in TripTexts : TripEnqueueText(text)
    \/ \E level \in Levels, source \in Sources, message \in Messages,
          exception \in Exceptions, methodName \in MethodNames,
          newLine \in NewLines :
          TripEnqueueEntry(level, source, message, exception, methodName, newLine)
    \/ ReadToken \/ WaitToRead \/ TryRead \/ RetryLoop \/ CreateClient \/ ConnectOk
    \/ \E newLine \in NewLines : TripWrite(newLine)
    \/ \E n \in 1..MaxWire : TripData(n)

SpecTrip == FrameInitAll /\ [][TripNext]_vars

-----------------------------------------------------------------------------
(* Framing *)

\* the lines one 'data' event with the whole text gives a new connection
WholeLines(data) == DataHandler(<<>>, data).logLines

\* C1: whatever the chunks a text arrived in, the lines queued for the
\* connection are those of the whole text given in one chunk
C1_FramingInvariant ==
    \A s \in FrameSockets :
        IsUtf8(received[s]) => emitted[s] = WholeLines(received[s])

\* socket s has closed in this step
Closes(s) == sock[s] # "none" /\ sock'[s] = "none"

DisconnectedRecord(s) == <<"[SERVER] ", "Client disconnected: ", s>>
OrphanedRecord(text) == <<"[SERVER] ", "Orphaned data from client: ">> \o text

\* C2 as stated: a close with a non-empty buffer appends, after the
\* disconnection record, one record, and its text is the buffer
C2_ResidualOneRecord ==
    [][\A s \in FrameSockets :
         (Closes(s) /\ buffer[s] # <<>>)
            => Appended = <<DisconnectedRecord(s), buffer[s]>>]_vars

\* C2 amended: a close whose buffer, trimmed, is not empty appends the
\* disconnection record, the [SERVER] record of the orphaned data and one last
\* record, the trimmed buffer; any other close appends the disconnection only
C2_ResidualFlush ==
    [][\A s \in FrameSockets :
         Closes(s) =>
            Appended = IF Trim(buffer[s]) # <<>>
                       THEN <<DisconnectedRecord(s),
                              OrphanedRecord(Trim(buffer[s])),
                              Trim(buffer[s])>>
                       ELSE <<DisconnectedRecord(s)>>]_vars

\* "a" without a line break, then the close: the batch ends with the record "a"
C2_Witness ==
    /\ received["c1"] = <<ByteA>>
    /\ sock["c1"] = "none"
    /\ logQueue = <<DisconnectedRecord("c1"), OrphanedRecord(<<"a">>), <<"a">>>>

-----------------------------------------------------------------------------
(* The logging client *)

\* the items of a sequence
Range(s) == {s[i] : i \in DOMAIN s}

\* this step is a call of EnqueueLog
Enqueues == nextMsg' # nextMsg

\* message m has been handed to a write
Attempted(m) == \E i \in DOMAIN writes : writes[i].msg = m

\* message m has been written to the socket
Written(m) == \E i \in DOMAIN writes : writes[i].msg = m /\ writes[i].ok

\* this step is a write that throws
WriteFails ==
    /\ Len(writes') = Len(writes) + 1
    /\ ~writes'[Len(writes')].ok

\* C3: a call of EnqueueLog, in whatever state the consumer and the connection
\* are, is one step that appends the message at the tail of the queue, at most
\* releases a consumer waiting for an item, and changes nothing else of the
\* connection, the consumer's item or the shutdown; once Dispose has completed
\* the channel the call changes nothing
C3_EnqueueNeverBlocks ==
    [][Enqueues =>
          /\ channel' = IF completed THEN channel ELSE Append(channel, nextMsg)
          /\ pc' \in {pc, "read"}
          /\ pc' # pc => pc = "blocked"
          /\ UNCHANGED <<completed, cancelled, item, isConnected, client, tcpOpen,
                         writer, writerOpen, disposePc, writes, dropped,
                         failures, faults>>]_vars

\* message 1 is being written, message 2 waits in the queue and message 3,
\* enqueued after Dispose completed the channel, is nowhere
C3_Witness ==
    /\ completed
    /\ pc = "send"
    /\ item = 1
    /\ channel = <<2>>
    /\ nextMsg = 4

\* C4: the messages reach the socket in the order of their EnqueueLog calls
C4_QueueOrdering ==
    \A i, j \in DOMAIN writes :
        (i < j /\ writes[i].ok /\ writes[j].ok) => writes[i].msg < writes[j].msg

\* three messages written over the one connection, in their order
C4_Witness ==
    writes = <<[msg |-> 1, tcp |-> 1, ok |-> TRUE],
               [msg |-> 2, tcp |-> 1, ok |-> TRUE],
               [msg |-> 3, tcp |-> 1, ok |-> TRUE]>>

\* C5: a write that throws leaves the client Disconnected and its message out
\* of the queue, and no message is handed to a write twice
C5_AtMostOneWrite ==
    /\ [](\A i, j \in DOMAIN writes : writes[i].msg = writes[j].msg => i = j)
    /\ [][WriteFails =>
            /\ ~isConnected'
            /\ item \notin Range(channel')
            /\ channel' = channel]_vars

\* the write of message 1 threw: the client is Disconnected and the consumer
\* goes on with message 2, the only one in the queue
C5_Witness ==
    /\ writes = <<[msg |-> 1, tcp |-> 1, ok |-> FALSE]>>
    /\ ~isConnected
    /\ pc = "read"
    /\ channel = <<2>>

\* C6 as stated, at rest: with the consumer waiting on an empty queue and no
\* shutdown, every message enqueued after a write failure has been written
C6_WrittenAfterFailure ==
    (pc = "blocked" /\ channel = <<>> /\ ~completed /\ ~cancelled)
        => \A f \in failures : \A m \in 1..(nextMsg - 1) :
               m >= f[2] => Written(m)

\* C6 amended: a message in the queue is in the end handed to a write, unless
\* the shutdown is requested first; and a message enqueued after a write
\* failure is handed to a connection made after the failure
C6_ReconnectResumption ==
    /\ \A m \in 1..(MaxMsgs + 1) :
          (m \in Range(channel)) ~> (Attempted(m) \/ cancelled)
    /\ [](\A f \in failures : \A i \in DOMAIN writes :
              writes[i].msg >= f[2] => writes[i].tcp > f[1])

\* message 1 written, the write of message 2 failed on the first connection,
\* message 3 enqueued afterwards and written on the second one
C6_Witness ==
    /\ failures = {<<1, 3>>}
    /\ writes = <<[msg |-> 1, tcp |-> 1, ok |-> TRUE],
                  [msg |-> 2, tcp |-> 1, ok |-> FALSE],
                  [msg |-> 3, tcp |-> 2, ok |-> TRUE]>>

-----------------------------------------------------------------------------
(* Starting and stopping the server *)

\* this step is the 'start-server' handler
Starts == reply'.op = "start-server"

\* a listener is closing
Closing == \E p \in Ports : closeCbs[p] > 0

NotRunningRecord == <<"[SERVER] ", "Server is not running.">>

\* C7: a start request with a server running and no stop under way throws
\* the 'already running' error and leaves the server, its listener, the
\* registry and the connections as they were
C7_StartWhileRunning ==
    [][(Starts /\ server # NULL /\ ~isStopping) =>
          /\ reply' = Threw("start-server", RunningMsg)
          /\ UNCHANGED <<server, isStopping, listening, closeCbs,
                         clientSockets, sock, buffer>>]_vars

\* a start refused as 'already running' with both connections registered
C7_Witness ==
    /\ reply = Threw("start-server", RunningMsg)
    /\ server # NULL
    /\ clientSockets = Sockets

\* C8: a start request between the stop of a running server and the close of
\* its listener throws the 'currently stopping' error and creates no listener,
\* and there are never two listeners
C8_StartWhileStopping ==
    /\ [](NumListeners <= 1)
    /\ [][(Starts /\ Closing) =>
            /\ reply' = Threw("start-server", StoppingMsg)
            /\ UNCHANGED <<server, isStopping, listening, closeCbs>>]_vars

\* this step is the 'stop-server' handler finding no server
StopsNothing ==
    reply'.op = "stop-server" /\ server = NULL /\ closeCbs' = closeCbs

\* C9 as stated: a stop request without a server succeeds and changes nothing,
\* the batch included
C9_StopNoSideEffect ==
    [][StopsNothing =>
          /\ reply' = Returned("stop-server", <<>>)
          /\ UNCHANGED <<server, isStopping, listening, closeCbs, clientSockets,
                         sock, buffer, logQueue, batchTimer, timeouts>>]_vars

\* C9 amended: a stop request without a server succeeds and leaves the server,
\* the stopping flag, the listeners and the registry as they were; it adds
\* the record '[SERVER] Server is not running.' to the batch and arms the
\* batch timer when none is pending
C9_StopWhenNotRunning ==
    [][StopsNothing =>
          /\ reply' = Returned("stop-server", <<>>)
          /\ UNCHANGED <<server, isStopping, listening, closeCbs, clientSockets,
                         sock, buffer>>
          /\ logQueue' = Append(logQueue, NotRunningRecord)
          /\ batchTimer'
          /\ timeouts' = IF batchTimer THEN timeouts ELSE timeouts + 1]_vars

\* the stop request was the first event: its record waits for the timer
C9_Witness ==
    /\ reply = Returned("stop-server", <<>>)
    /\ server = NULL
    /\ logQueue = <<NotRunningRecord>>
    /\ batchTimer
    /\ timeouts = 1

\* this step is the close of the listener of the server being stopped
StopCompletes == server # NULL /\ closeCbs[server] > 0 /\ closeCbs'[server] = 0

-----------------------------------------------------------------------------
(* A start that finds the port taken *)

\* this step is a 'start-server' handler whose listen() found the port in use
PortInUse == \E p \in Ports : reply' = Threw("start-server", PortInUseMsg(p))

\* C11: a start that finds its port in use throws the error to its caller and
\* leaves the server stopped: no instance, the stopping flag clear, the
\* registry empty, no listener created, the guard of the next start false;
\* and a listener only ever appears in a start request that returns success
C11_PortInUse ==
    /\ [][PortInUse =>
            /\ server' = NULL
            /\ ~isStopping'
            /\ clientSockets' = {}
            /\ listening' = listening
            /\ closeCbs' = closeCbs
            /\ ~StartRefused']_vars
    /\ [][listening' \ listening # {} =>
            \E p \in Ports : /\ reply' = Returned("start-server", <<p>>)
                             /\ listening' = listening \cup {p}]_vars

-----------------------------------------------------------------------------
(* The batch and its deliveries *)

\* this step is the timer's callback
TimerFires == timeouts' < timeouts

\* sequence s begins with sequence q
StartsWith(s, q) == Len(q) <= Len(s) /\ SubSeq(s, 1, Len(q)) = q

\* C12: no batch given to the sink is empty; a delivery hands over the whole
\* batch and leaves it empty in the same step, and every other step only adds
\* to the batch, so what was delivered once is never delivered again
C12_FlushClears ==
    /\ [](\A i \in DOMAIN sink : sink[i] # <<>>)
    /\ [][sink' # sink =>
            /\ TimerFires
            /\ sink' = Append(sink, logQueue)
            /\ logQueue' = <<>>]_vars
    /\ [][sink' = sink => StartsWith(logQueue', logQueue)]_vars

\* two deliveries, the entry "a" in the first and "b" in the second, and the
\* batch empty again
C12_Witness ==
    /\ sink = << << <<"[MANUAL] ", "a">> >>, << <<"[MANUAL] ", "b">> >> >>
    /\ logQueue = <<>>
    /\ ~batchTimer

\* C13: the timer armed by a single append delivers, when it fires, a batch
\* of exactly that record, and leaves the batch empty with no timer pending
C13_SingleAppendOneFlush ==
    [][(TimerFires /\ Len(logQueue) = 1) =>
          /\ sink' = Append(sink, logQueue)
          /\ logQueue' = <<>>
          /\ ~batchTimer'
          /\ timeouts' = 0]_vars

-----------------------------------------------------------------------------
(* Errors of a connection *)

\* this step is the 'error' event of socket s: the socket is destroyed and
\* no server.close() is called
ErrorOn(s) == sock[s] = "open" /\ sock'[s] = "destroyed" /\ closeCbs' = closeCbs

\* this step is the 'close' event of the destroyed socket s
ClosesDestroyed(s) == sock[s] = "destroyed" /\ sock'[s] # "destroyed"

\* the step leaves the server, its listener and every connection but s alone
OthersUntouched(s) ==
    /\ UNCHANGED <<server, isStopping, listening, closeCbs>>
    /\ \A o \in Sockets \ {s} :
          /\ sock'[o] = sock[o]
          /\ buffer'[o] = buffer[o]
          /\ (o \in clientSockets') = (o \in clientSockets)

\* C14: the 'error' event of a connection and the 'close' event that follows
\* it leave the server, the listener and every other connection's registry
\* membership and buffer as they were, and the connection with the error is
\* in the end closed and out of the registry
C14_SocketErrorContained ==
    /\ [][\A s \in Sockets : ErrorOn(s) => OthersUntouched(s)]_vars
    /\ [][\A s \in Sockets : ClosesDestroyed(s) =>
              /\ sock'[s] = "none"
              /\ s \notin clientSockets'
              /\ OthersUntouched(s)]_vars
    /\ \A s \in Sockets :
          (sock[s] = "destroyed") ~> (sock[s] = "none" /\ s \notin clientSockets)

\* c1 had an error and has closed; the server runs on, and c2 is registered
\* with its partial line in its buffer
C14_Witness ==
    /\ sock = [c1 |-> "none", c2 |-> "open"]
    /\ buffer["c2"] = <<"a">>
    /\ clientSockets = {"c2"}
    /\ server # NULL
    /\ ~isStopping
    /\ \E i \in DOMAIN logQueue :
          logQueue[i] = <<"[SERVER] ", "Client error (", "c1", "): ", "ECONNRESET">>

-----------------------------------------------------------------------------
(* Manual entries *)

\* this step is the 'add-manual-log' handler
InjectsLocal == reply'.op = "add-manual-log"

\* C15: with the server stopped, running or stopping, a manual entry can be
\* made as long as the app runs and handles requests (the batch of the model having room for it),
\* returns success, adds to
\* the batch one record, the text with its [MANUAL] tag, and leaves every
\* decode buffer, the sockets, the registry and the server as they were
C15_InjectLocal ==
    /\ []((Ready /\ Len(logQueue) < MaxBatch) =>
             \A logText \in ManualTexts : ENABLED AddManualLog(logText))
    /\ [][InjectsLocal =>
            /\ reply' = Returned("add-manual-log", <<>>)
            /\ \E logText \in ManualTexts :
                  logQueue' = Append(logQueue, <<"[MANUAL] ">> \o logText)
            /\ UNCHANGED <<server, isStopping, listening, closeCbs,
                           clientSockets, sock, buffer>>]_vars

\* a manual entry made while the server is stopping
C15_Witness ==
    /\ reply = Returned("add-manual-log", <<>>)
    /\ isStopping
    /\ server # NULL
    /\ logQueue # <<>>
    /\ logQueue[Len(logQueue)] = <<"[MANUAL] ", "a">>

-----------------------------------------------------------------------------
(* Dispose *)

\* the call of Dispose has ended, by its last statement or by an exception
DisposeEnded == disposePc \in {"disposed", "threw"}

\* C16: when Dispose has ended the channel is completed and neither a
\* TcpClient nor the StreamWriter of the client is left undisposed
C16_DisposeShutsDown ==
    DisposeEnded => (completed /\ tcpOpen = {} /\ ~writerOpen)

-----------------------------------------------------------------------------
(* Structured entries *)

\* C17: a call of EnqueueLog with a structured entry adds one item to the
\* queue, and the item has no line break in it
C17_EntryOneLine ==
    [][Len(channel') > Len(channel) =>
          /\ Len(channel') = Len(channel) + 1
          /\ LF \notin Range(channel'[Len(channel')])]_vars

-----------------------------------------------------------------------------
(* The sockets of the client *)

\* C18: the client never holds more than one undisposed TcpClient
C18_OneLiveConnection == Cardinality(tcpOpen) <= 1

\* connected over the third TcpClient, the two before it disposed
C18_Witness ==
    /\ client = 3
    /\ tcpOpen = {3}
    /\ isConnected
    /\ writer = 3

-----------------------------------------------------------------------------
(* What becomes of a record taken from the queue *)

\* the consumer holds an item: it is connecting for it or writing it
InLoopBody == pc \in {"retry", "create", "connect", "delay", "send"}

\* this step ends the loop body for the item held
LeavesItem ==
    InLoopBody /\ pc' \notin {"retry", "create", "connect", "delay", "send"}

\* this step hands the item held to a write
AttemptsItem ==
    /\ Len(writes') = Len(writes) + 1
    /\ writes'[Len(writes')].msg = item

\* this step takes the head of the queue for the consumer
HandsOver == item' = Head(channel) /\ channel' = Tail(channel) /\ pc = "read"

\* C19 as stated: the queue loses a record only by handing its head to the
\* consumer, and the consumer is done with a record only by a write attempt
C19_NeverDropped ==
    /\ [][Len(channel') < Len(channel) => HandsOver]_vars
    /\ [][LeavesItem => AttemptsItem]_vars

\* C19 amended: the queue loses a record only by handing its head to the
\* consumer; the consumer is done with a record by a write attempt or, once
\* the shutdown is requested, by abandoning it, and never abandons one before
C19_DroppedOnlyAtShutdown ==
    /\ [][Len(channel') < Len(channel) => HandsOver]_vars
    /\ [][LeavesItem =>
            \/ AttemptsItem /\ dropped' = dropped
            \/ cancelled /\ dropped' = dropped \cup {item} /\ writes' = writes]_vars
    /\ [](dropped # {} => cancelled)

\* the write of message 1 failed; message 2, taken after the shutdown was
\* requested, was abandoned without a write
C19_Witness ==
    /\ writes = <<[msg |-> 1, tcp |-> 1, ok |-> FALSE]>>
    /\ dropped = {2}
    /\ cancelled

-----------------------------------------------------------------------------
(* The decode buffer between 'data' events *)

\* C20: between the events of a connection its buffer holds no line break:
\* it is the one partial line received since the last line break
C20_NoLineBreakInBuffer ==
    \A s \in Sockets : LF \notin Range(buffer[s])

\* "a", a line break and "a" received: the line was queued and the second
\* "a" waits in the buffer
C20_Witness ==
    /\ received["c1"] = <<ByteA, ByteLF, ByteA>>
    /\ sock["c1"] = "open"
    /\ buffer["c1"] = <<"a">>
    /\ emitted["c1"] = << <<"a">> >>

-----------------------------------------------------------------------------
(* One 'data' event, against the lines of its text *)

\* the places of the line breaks of a text
LineBreaks(str) == {i \in DOMAIN str : str[i] = LF}

\* the k-th smallest of a set of numbers
Nth(S, k) == CHOOSE i \in S : Cardinality({j \in S : j <= i}) = k

\* a text from its first to its last character that is not whitespace
Stripped(str) ==
    LET ink == {i \in DOMAIN str : ~IsWhitespace(str[i])} IN
    IF ink = {} THEN <<>>
    ELSE SubSeq(str, CHOOSE i \in ink : \A j \in ink : i <= j,
                     CHOOSE i \in ink : \A j \in ink : j <= i)

\* the segments of a text that end at a line break, each stripped
Segments(str) ==
    LET P == LineBreaks(str) IN
    [k \in 1..Cardinality(P) |->
        Stripped(SubSeq(str, IF k = 1 THEN 1 ELSE Nth(P, k - 1) + 1, Nth(P, k) - 1))]

\* the text after the last line break
AfterLastBreak(str) ==
    LET P == LineBreaks(str) IN
    IF P = {} THEN str ELSE SubSeq(str, Nth(P, Cardinality(P)) + 1, Len(str))

\* the bytes socket s receives in this step
Chunk(s) == SubSeq(received'[s], Len(received[s]) + 1, Len(received'[s]))

\* C21: a 'data' event queues the segments of old buffer + chunk that end at
\* a line break, stripped of whitespace at both ends, those left empty
\* dropped, in their order; the buffer becomes the text after the last
\* line break
C21_DataEventRecords ==
    [][\A s \in FrameSockets :
         received'[s] # received[s] =>
            LET text == buffer[s] \o BufferToString(Chunk(s)) IN
            /\ Appended = SelectSeq(Segments(text), LAMBDA seg : seg # <<>>)
            /\ buffer'[s] = AfterLastBreak(text)]_vars

\* a line of one space and the line "a" received: the record "a" was queued
\* and the line left empty by the trimming was not
C21_Witness ==
    /\ received["c1"] = <<ByteSP, ByteLF, ByteA, ByteLF>>
    /\ emitted["c1"] = << <<"a">> >>
    /\ buffer["c1"] = <<>>
    /\ sock["c1"] = "open"

-----------------------------------------------------------------------------
(* The batch timer *)

\* this step appends to the batch
Appends == Len(logQueue') > Len(logQueue)

\* C22: at most one timer is pending, and batchTimer tells whether one is; a
\* timer is set only by the first append after a flush, the append that finds
\* the batch empty, and every append leaves exactly one pending; an append
\* that finds one pending leaves it as it is; and the timer is cleared only
\* by the flush, the step that gives the batch to the sink
C22_TimerArmedOnce ==
    /\ [](timeouts <= 1 /\ (batchTimer <=> timeouts = 1))
    /\ [][timeouts' > timeouts => (Appends /\ logQueue = <<>>)]_vars
    /\ [][Appends => (batchTimer' /\ timeouts' = 1)]_vars
    /\ [][(batchTimer /\ ~batchTimer') => sink' = Append(sink, logQueue)]_vars

-----------------------------------------------------------------------------
(* The records of one connection among those of the others *)

\* the batches given to the sink, one after the other
RECURSIVE Flatten(_)
Flatten(batches) ==
    IF batches = <<>> THEN <<>> ELSE Head(batches) \o Flatten(Tail(batches))

\* the letter of the lines of a peer
Letter(s) == IF s = "c1" THEN "a" ELSE "b"

\* the record is a line of peer s
LineOf(s, record) == \A i \in DOMAIN record : record[i] = Letter(s)

\* the lines of peer s among the records, in their order
LinesOf(s, records) == SelectSeq(records, LAMBDA record : LineOf(s, record))

\* C23: the lines of a connection that the sink has been given are, in the
\* order given, the first of the lines its decoder has queued, whatever the
\* other connection and the manual entries have put among them
C23_ConnectionOrder ==
    \A s \in Sockets : StartsWith(emitted[s], LinesOf(s, Flatten(sink)))

\* the lines "a" and "aa" of c1 delivered in two batches, a manual entry
\* between them, while a line of c2 is being received
C23_Witness ==
    /\ sink = << << <<"a">>, <<"[MANUAL] ", "a">> >>, << <<"a", "a">> >> >>
    /\ emitted["c1"] = << <<"a">>, <<"a", "a">> >>
    /\ buffer["c2"] = <<"b">>

-----------------------------------------------------------------------------
(* The connection state of the client *)

\* this step is a connect attempt that succeeds
ConnectSucceeds == pc = "connect" /\ pc' = "retry" /\ isConnected'

\* this step hands a message to WriteLineAsync
WriteAttempted == Len(writes') = Len(writes) + 1

\* the state changes from Disconnected to Connected only in a connect attempt
\* that succeeds and installs a writer on the new TcpClient, and from
\* Connected to Disconnected only in a write that fails
C24_StateChanges ==
    [][isConnected' # isConnected =>
          \/ /\ ~isConnected /\ ConnectSucceeds
             /\ writerOpen' /\ writer' = client /\ client \in tcpOpen'
          \/ isConnected /\ WriteFails]_vars

\* a write is attempted only in state Connected
C24_WriteWhileConnected == [][WriteAttempted => isConnected]_vars

\* a write is attempted only on a writer that has not been disposed
C24_WriteOnLiveStream == [][WriteAttempted => writerOpen]_vars

\* C24: the connection state starts Disconnected, becomes Connected only by a
\* successful connect attempt that installs a fresh writer, becomes
\* Disconnected only by a failed write, and a write is attempted only while
\* Connected and never on a disposed writer
C24_ConnectionState ==
    /\ ~isConnected
    /\ C24_StateChanges
    /\ C24_WriteWhileConnected
    /\ C24_WriteOnLiveStream

-----------------------------------------------------------------------------
(* Connecting with retry *)

\* the consumer is in ConnectWithRetryAsync
InRetry == pc \in {"retry", "create", "connect", "delay"}

\* this step starts a connect attempt
StartsAttempt == pc # "connect" /\ pc' = "connect"

\* this step is a connect attempt that fails
AttemptFails == pc = "connect" /\ pc' # "connect" /\ ~isConnected'

\* C25: ConnectWithRetryAsync is left only Connected or with the shutdown
\* requested, and its loop test, Disconnected and without a shutdown, goes on
\* to the next attempt; a failed connect attempt is followed by the retry
\* delay unless the shutdown is requested, the delay ends only by running out
\* or by the shutdown, and a connect attempt is only started by the lock block
\* that makes a new TcpClient, which only the loop's test lets through,
\* Disconnected and without a shutdown, never the step that follows a failure
C25_RetryWithDelay ==
    /\ [][(InRetry /\ pc' \notin {"retry", "create", "connect", "delay"}) =>
             (isConnected \/ cancelled)]_vars
    /\ [][(pc = "retry" /\ pc' # "retry" /\ ~isConnected /\ ~cancelled) =>
             pc' = "create"]_vars
    /\ [][AttemptFails =>
             IF cancelled THEN pc' \in {"cancelled", "faulted"} ELSE pc' = "delay"]_vars
    /\ [][(pc = "delay" /\ pc' # "delay") =>
             IF cancelled THEN pc' = "cancelled" ELSE pc' = "retry"]_vars
    /\ [][StartsAttempt => (pc = "create" /\ client' = client + 1)]_vars
    /\ [][(pc # "create" /\ pc' = "create") =>
             (pc = "retry" /\ ~isConnected /\ ~cancelled)]_vars

\* the second connect attempt has failed as the first did, and the consumer
\* waits the delay again
C25_Witness ==
    /\ pc = "delay"
    /\ client = 2
    /\ faults = 2
    /\ ~cancelled
    /\ ~isConnected

-----------------------------------------------------------------------------
(* The shutdown and the suspended consumer *)

\* the consumer task has ended
Terminated == pc \in {"done", "cancelled", "faulted"}

\* this step is the loop test of ConnectWithRetryAsync letting an attempt through
PassesTest == pc # "create" /\ pc' = "create"

\* C26: once Cancel() has run the consumer is not left waiting for an item,
\* leaves the retry delay only by the cancellation, which ends the task,
\* leaves a connect attempt that fails by ending the task, and its loop test
\* lets no attempt through: the only attempt started afterwards is one whose
\* test had passed before Cancel(); and in the end the task terminates
C26_ShutdownInterrupts ==
    /\ [](cancelled => pc # "blocked")
    /\ [][(cancelled /\ pc = "wait" /\ pc' # "wait") => pc' = "cancelled"]_vars
    /\ [][(cancelled /\ pc = "delay" /\ pc' # "delay") => pc' = "cancelled"]_vars
    /\ [][cancelled => ~PassesTest]_vars
    /\ [][(cancelled /\ AttemptFails) => pc' \in {"cancelled", "faulted"}]_vars
    /\ cancelled ~> Terminated

\* the shutdown came during the retry delay after the first failed attempt:
\* the task has ended cancelled, its message abandoned, no second attempt made
C26_Witness ==
    /\ pc = "cancelled"
    /\ cancelled
    /\ client = 1
    /\ faults = 1
    /\ dropped = {1}
    /\ writes = <<>>

-----------------------------------------------------------------------------
(* Failures and the life of the consumer *)

\* the consumer is about to run, waits for an item, connects or retries,
\* writes, or is in the catch block of a failed write
Running ==
    pc \in {"start", "wait", "blocked", "read", "retry", "create", "connect",
            "delay", "send", "cleanup"}

\* C27: as long as Dispose has not been called the consumer task has not
\* ended, whatever has failed; a failed connect attempt leaves it in the retry
\* delay and a failed write in the catch block and from there at the queue,
\* and a call of EnqueueLog made after failures adds its message to the queue
\* as any other
C27_FailuresContained ==
    /\ [](disposePc = "idle" => Running)
    /\ [][(AttemptFails /\ disposePc = "idle") => pc' = "delay"]_vars
    /\ [][(WriteFails /\ disposePc = "idle") => pc' = "cleanup"]_vars
    /\ [][(pc = "cleanup" /\ pc' # "cleanup") => pc' = "read"]_vars
    /\ [][(Enqueues /\ disposePc = "idle") =>
             channel' = Append(channel, nextMsg)]_vars

\* after a failed connect attempt and a failed write, with no shutdown, the
\* consumer is connecting again for message 2 and message 3 is in the queue
C27_Witness ==
    /\ disposePc = "idle"
    /\ faults = 2
    /\ writes = <<[msg |-> 1, tcp |-> 2, ok |-> FALSE]>>
    /\ pc = "connect"
    /\ item = 2
    /\ channel = <<3>>

-----------------------------------------------------------------------------
(* The registry of connections *)

\* the connections accepted whose 'close' has not been handled
Unclosed == {s \in Sockets : sock[s] # "none"}

\* this step is the connection callback for socket s
Accepts(s) == sock[s] = "none" /\ sock'[s] = "open"

\* this step is the 'close' handler of socket s
HandlesClose(s) == sock[s] # "none" /\ sock'[s] = "none"

\* C28 as stated: with a server running and no stop under way the registry is
\* the set of the connections accepted whose close has not been handled
C28_RegistryIsUnclosed ==
    (server # NULL /\ ~isStopping) => clientSockets = Unclosed

\* this step is a stop request for a running server
StopsRunning == server # NULL /\ closeCbs'[server] = closeCbs[server] + 1

\* C28 amended: a connection enters the registry when it is accepted and
\* leaves it when its close is handled or when a stop clears the registry,
\* and in no other step (an error leaves it registered until its close);
\* every open connection is registered and every registered connection is one
\* whose close has not been handled
C28_RegistryTracks ==
    /\ [][\A s \in Sockets : Accepts(s) => s \in clientSockets']_vars
    /\ [][\A s \in Sockets : HandlesClose(s) => s \notin clientSockets']_vars
    /\ [][StopsRunning => clientSockets' = {}]_vars
    /\ [][\A s \in Sockets :
             (s \in clientSockets) # (s \in clientSockets') =>
                 Accepts(s) \/ HandlesClose(s) \/ StopsRunning]_vars
    /\ [](\A s \in Sockets : sock[s] = "open" => s \in clientSockets)
    /\ [](clientSockets \subseteq Unclosed)

\* with the server running c1 is open and c2, which had an error, waits for
\* its close: both are registered
C28_Witness ==
    /\ server # NULL
    /\ ~isStopping
    /\ sock = [c1 |-> "open", c2 |-> "destroyed"]
    /\ clientSockets = {"c1", "c2"}

-----------------------------------------------------------------------------
(* The batch and its timer *)

\* C29: whenever the batch holds a record a timer is pending
C29_TimerWhileNonEmpty == logQueue # <<>> => (batchTimer /\ timeouts > 0)

-----------------------------------------------------------------------------
(* From the decoder to the sink: one connection, the timer, the window *)

\* a 'data' event of c1, the only source of records
DeliverData(data) == FrameData("c1", data)

\* the data events of the connection, the timer, the events of the window and
\* of the app; a quit stops the server, which destroys the connection, before
\* the app quits
DeliverNext ==
    \/ \E data \in DataChunks : DeliverData(data)
    \/ Flush
    \/ WindowClosed
    \/ WindowAllClosed
    \/ MenuQuit
    \/ WillQuit
    \/ Activate
    \/ \E p \in Ports : ServerClosed(p)
    \/ DestroyedClose("c1")

SpecDeliver == FrameInitAll /\ [][DeliverNext]_vars

\* the server runs and no stop is under way: the records appended are those of
\* the data events
Serving == server # NULL /\ ~isStopping

\* the records appended to the batch so far
AllAppended == emitted["c1"]

\* the records given to the sink so far
AllDelivered == Flatten(sink)

\* C30, at every point: what has been delivered is the first part of what has
\* been appended, and the rest is the batch
C30_DeliveredIsPrefix ==
    Serving =>
        /\ StartsWith(AllAppended, AllDelivered)
        /\ AllDelivered \o logQueue = AllAppended

\* C30, in the end: when the app runs with its window and no timer is pending,
\* so that no delivery is to come, every record appended has been delivered
C30_EventuallyDelivered ==
    (Serving /\ app = "running" /\ mainWindow /\ ~batchTimer)
        => AllDelivered = AllAppended

\* C30: the batches delivered are, one after the other, a prefix of the records
\* appended, and every record appended is in the end delivered
C30_NoLossNoReorder ==
    /\ C30_DeliveredIsPrefix
    /\ C30_EventuallyDelivered

-----------------------------------------------------------------------------
(* A server-level error on a listener that is listening *)

\* the server's requests and events, and the errors of its listeners
ErrorNext ==
    \/ \E port \in Ports, bind \in BindResults : StartServer(port, bind)
    \/ StopServer
    \/ \E p \in Ports : ServerClosed(p)
    \/ \E p \in Ports : ServerError(p)
    \/ \E s \in Sockets : Connection(s) /\ UNCHANGED frameVars
    \/ \E s \in Sockets : SocketClose(s) /\ UNCHANGED frameVars
    \/ BatchTimerFire /\ UNCHANGED sink

SpecServerError == Init /\ [][ErrorNext]_vars

\* C31: whenever no server instance exists the registry is empty
C31_StoppedRegistryEmpty == server = NULL => clientSockets = {}

-----------------------------------------------------------------------------
(* The buffers of two connections *)

\* the records connection s queues when it is the only one: the lines of the
\* text it received and, once it has closed, the disconnection and what was
\* left after the last line break
AloneRecords(s) ==
    LET text == BufferToString(received[s])
        lines == SelectSeq(Segments(text), LAMBDA seg : seg # <<>>)
        rest == Stripped(AfterLastBreak(text))
    IN  IF sock[s] = "open" THEN lines
        ELSE lines \o <<DisconnectedRecord(s)>>
                   \o (IF rest # <<>> THEN <<OrphanedRecord(rest), rest>> ELSE <<>>)

\* the record has text of connection s only, or none of a connection
PureOf(s, record) ==
    \A i \in DOMAIN record :
        record[i] \in {"a", "b"} => record[i] = Letter(s)

\* C32: whatever the order of the data and close events of the two
\* connections, the records each connection has queued are those it queues
\* alone, and every record a handler queues has the text of its own
\* connection only
C32_BuffersIsolated ==
    /\ [](\A s \in Sockets : emitted[s] = AloneRecords(s))
    /\ [][\A s \in Sockets :
             emitted'[s] # emitted[s] =>
                 \A i \in DOMAIN Appended : PureOf(s, Appended[i])]_vars

\* c1 has sent "a", then c2 "b" and a line break, then c1 its line break, and
\* c2 has closed with a second "b" in its buffer
C32_Witness ==
    /\ received = [c1 |-> <<ByteA, ByteLF>>, c2 |-> <<ByteB, ByteLF, ByteB>>]
    /\ emitted["c1"] = << <<"a">> >>
    /\ emitted["c2"] = << <<"b">>, DisconnectedRecord("c2"),
                          OrphanedRecord(<<"b">>), <<"b">> >>
    /\ sock = [c1 |-> "open", c2 |-> "none"]

-----------------------------------------------------------------------------
(* Stopping with records pending: the stop, the closes, the timer, the window *)

\* the bytes c1 sends before the stop
MaxSent == 2

\* a 'data' event of c1
StopData(data) ==
    /\ Len(received["c1"]) + Len(data) <= MaxSent
    /\ SocketData("c1", data)
    /\ received' = [received EXCEPT !["c1"] = @ \o data]
    /\ UNCHANGED <<sink, emitted>>

\* a stop request with a server running
StopRunning == server # NULL /\ StopServer

StopNext ==
    \/ \E data \in MixChunks("c1") : StopData(data)
    \/ StopRunning
    \/ \E p \in Ports : ServerClosed(p)
    \/ \E s \in Sockets : DestroyedClose(s)
    \/ Flush
    \/ WindowClosed
    \/ WindowAllClosed
    \/ MenuQuit
    \/ WillQuit
    \/ Activate

SpecStop == MixInit /\ [][StopNext]_vars

\* this step is the stop request for a running server
StopRequested == server # NULL /\ closeCbs'[server] = closeCbs[server] + 1

\* C33, the step of the stop: the batch keeps its records in their order, gets
\* the one record of the stop after them, and a timer is pending afterwards,
\* the one that was pending when there was one
C33_StopKeepsBatch ==
    [][StopRequested =>
          /\ StartsWith(logQueue', logQueue)
          /\ Len(Appended) = 1 /\ Appended[1][1] = "[SERVER] "
          /\ batchTimer'
          /\ timeouts' = IF batchTimer THEN timeouts ELSE timeouts + 1]_vars

\* C33, the deliveries: the batches are delivered whole and in their order
C33_DeliveredInOrder ==
    /\ [][sink' # sink => sink' = Append(sink, logQueue) /\ logQueue' = <<>>]_vars
    /\ [][sink' = sink => StartsWith(logQueue', logQueue)]_vars

\* the stop is over and the connections it destroyed have closed
StopOver == server = NULL /\ ~isStopping /\ \A s \in Sockets : sock[s] = "none"

\* C33, afterwards: when the stop is over, the app runs with its window and no
\* timer is pending, so that no delivery is to come, no record is left in the
\* batch: the records appended before and during the stop, the residual text
\* of the destroyed connections too, have been delivered
C33_DeliveredAfterStop ==
    [](StopOver /\ app = "running" /\ mainWindow /\ ~batchTimer => logQueue = <<>>)

\* C33: a stop request leaves the batch and its timer as they were but for
\* the record it appends, and every record appended before the stop, the
\* residual text of the destroyed connections too, is delivered afterwards
\* in order
C33_StopKeepsRecords ==
    /\ C33_StopKeepsBatch
    /\ C33_DeliveredInOrder
    /\ C33_DeliveredAfterStop

-----------------------------------------------------------------------------
(* The end of a stop *)

StoppedRecord == <<"[SERVER] ", "Server stopped.">>

\* C34: a stop under way ends with the stopping flag clear and no server
\* instance; a stop requested during a stop leaves the instance and the flag
\* as they are and adds its callback; the close of the listener runs every
\* callback, leaves no connection open, and the start request that comes next
\* is not refused by the guard
C34_StopEventuallyCompletes ==
    /\ isStopping ~> (~isStopping /\ server = NULL)
    /\ [](isStopping => server # NULL /\ closeCbs[server] > 0)
    /\ [][(StopRequested /\ isStopping) =>
             /\ UNCHANGED <<server, isStopping, listening>>
             /\ \A s \in Sockets : sock'[s] # "open"]_vars
    /\ [][StopCompletes =>
             /\ closeCbs'[server] = 0
             /\ ~isStopping' /\ server' = NULL
             /\ \A s \in Sockets : sock'[s] # "open"]_vars
    /\ [][(Starts /\ server = NULL) =>
             reply'.value \notin {StoppingMsg, RunningMsg}]_vars

\* stop was requested twice for the server with both connections open; the
\* listener has closed, both callbacks have run and a start has been accepted
C34_Witness ==
    /\ reply = Returned("start-server", <<"8080">>)
    /\ server = "8080"
    /\ ~isStopping
    /\ logQueue = <<StoppedRecord, StoppedRecord,
                    <<"[SERVER] ", "Server started and listening on port ", "8080">> >>

-----------------------------------------------------------------------------
(* From EnqueueLog to the records of the server *)

\* the message has been written and every byte of it received
Arrived == writes # <<>> /\ received["c1"] = Wire

\* a text without line breaks, without whitespace at its ends, not empty and
\* in ASCII
PlainText(text) ==
    /\ text # <<>>
    /\ \A i \in DOMAIN text : text[i] \notin {LF, CR, EAcute}
    /\ ~IsWhitespace(text[1]) /\ ~IsWhitespace(text[Len(text)])

\* C35: when the message enqueued has been written and received, in whatever
\* pieces, the records of its connection are one record, the message
C35_RoundTrip == Arrived => emitted["c1"] = <<item>>

\* what holds: the round trip of a plain text
C35_PlainRoundTrip == (Arrived /\ PlainText(item)) => emitted["c1"] = <<item>>

=============================================================================
